---- MODULE Spec2Model ----
(***************************************************************************)
(* Model of qgis_templates_symbology/conf.py: the SettingsManager facade   *)
(* over a QgsSettings key/value store, the ProfileSettings / Template /    *)
(* Symbology codecs and the active-profile pointer.                        *)
(*                                                                         *)
(* The store is a finite map from keys to values.  A key is the sequence   *)
(* of the "/"-separated segments of the QgsSettings key.  Every stored     *)
(* value is a string; Python's None is the string NoneVal.  In memory a    *)
(* uuid.UUID is a number (an index into UuidText, its str() form), and a   *)
(* datetime is a number (an index into DateText, its strftime() form);     *)
(* the datetime slot holding Python's None is NoDate.                      *)
(***************************************************************************)
EXTENDS Integers, Sequences, FiniteSets, TLC

\* ------------------------------------------------------------------ bounds
\* number of SettingsManager calls in a run
MaxCalls == 3

\* ------------------------------------------------------- program constants
BASE_GROUP_NAME == "qgis_templates_symbology"
PROFILE_GROUP_NAME == "profiles"
SELECTED_PROFILE_KEY == "selected_profile"
TEMPLATE_GROUP_NAME == "templates"
SYMBOLOGY_GROUP_NAME == "symbology"

\* Python's None as a stored / returned value, and as a datetime slot.
NoneVal == "None"
NoDate == 0

\* ------------------------------------------------------------ value tables
\* str(uuid.UUID): canonical text of the n-th profile identifier.
UuidText == <<"u1", "u2", "u3", "u4">>
\* identifiers of templates and of symbology items (already text).
TemplateText == <<"t1", "t2", "t3">>
SymbologyText == <<"s1", "s2", "s3">>
\* strftime("%Y-%m-%dT%H:%M:%S.%fZ") of the n-th instant.
DateText == <<"2024-01-01T00:00:00.000001Z", "2024-01-01T00:00:00.000002Z",
              "2024-01-01T00:00:00.000003Z", "2024-01-01T00:00:00.000004Z">>
\* a created_date text that is not in the fixed format
MalformedDate == "01/01/2024"

\* the values the calls of a run draw their arguments from
ProfileIds == {1, 2}
Times == {1, 2}
TemplateIds == {TemplateText[1]}
SymbologyIds == {SymbologyText[1]}
ProfileNames == {"Default", "Custom"}
ProfilePaths == {"/data"}
ChildNames == {"Basic"}

\* --------------------------------------------------------------- the state
VARIABLES
  store,    \* the QgsSettings contents: key -> value
  lastOp,   \* the last completed call: its arguments, outcome and effects
  calls     \* number of calls made so far

vars == <<store, lastOp, calls>>

\* ------------------------------------------------------------- conversions
str(identifier) == UuidText[identifier]

IsUuidText(s) == \E n \in 1..Len(UuidText) : UuidText[n] = s

\* uuid.UUID(text)
UUID(s) == CHOOSE n \in 1..Len(UuidText) : UuidText[n] = s

strftime(t) == DateText[t]

\* datetime.strptime(text, "%Y-%m-%dT%H:%M:%S.%fZ"): ValueError when the
\* text is not in the format.
strptime(s) ==
  IF \E t \in 1..Len(DateText) : DateText[t] = s
  THEN [raised |-> "none", value |-> CHOOSE t \in 1..Len(DateText) : DateText[t] = s]
  ELSE [raised |-> "ValueError", value |-> NoDate]

\* ------------------------------------------------------------ the QSettings
\* QSettings keeps its keys sorted; childGroups() lists in that order.
Collation == SymbologyText \o TemplateText \o UuidText

Rank(s) == CHOOSE i \in 1..Len(Collation) : Collation[i] = s

RECURSIVE SortedNames(_)
SortedNames(S) ==
  IF S = {} THEN <<>>
  ELSE LET m == CHOOSE x \in S : \A y \in S : Rank(x) <= Rank(y)
       IN <<m>> \o SortedNames(S \ {m})

IsPrefix(p, k) == Len(p) <= Len(k) /\ SubSeq(k, 1, Len(p)) = p

\* QgsSettings.setValue(key, value) inside the group `group`
setValue(s, key, val) ==
  [k \in (DOMAIN s) \cup {key} |-> IF k = key THEN val ELSE s[k]]

\* QgsSettings.value(key): None when the key is not stored
value(s, key) == IF key \in DOMAIN s THEN s[key] ELSE NoneVal

\* QgsSettings.remove(key): the key and every key below it
remove(s, key) ==
  [k \in {j \in DOMAIN s : ~IsPrefix(key, j)} |-> s[k]]

\* QgsSettings.childGroups() inside the group `group`
childGroups(s, group) ==
  SortedNames({k[Len(group) + 1] :
             k \in {j \in DOMAIN s : IsPrefix(group, j) /\ Len(j) > Len(group) + 1}})

EmptyStore == [k \in {} |-> NoneVal]

\* ------------------------------------------------------------ path builders
ProfilesRoot == <<BASE_GROUP_NAME, PROFILE_GROUP_NAME>>

SelectedKey == <<BASE_GROUP_NAME, SELECTED_PROFILE_KEY>>

\* takes the identifier already as text (its callers pass str or UUID and
\* the f-string applies str())
_get_profile_settings_base(text) ==
  <<BASE_GROUP_NAME, PROFILE_GROUP_NAME, text>>

\* a template path without the profile segment's own identifier: every
\* profile shares the first profile's templates group
_get_template_settings_base_shared(profile_text, text) ==
  <<BASE_GROUP_NAME, PROFILE_GROUP_NAME, UuidText[1], TEMPLATE_GROUP_NAME, text>>

_get_template_settings_base(profile_text, text) ==
  <<BASE_GROUP_NAME, PROFILE_GROUP_NAME, profile_text, TEMPLATE_GROUP_NAME, text>>

_get_symbology_settings_base(profile_text, text) ==
  <<BASE_GROUP_NAME, PROFILE_GROUP_NAME, profile_text, SYMBOLOGY_GROUP_NAME, text>>

\* ------------------------------------------------------------------ codecs
\* In-memory records.  NoProfile stands for Python's None where a
\* ProfileSettings is expected.
NoProfile ==
  [id |-> 0, name |-> NoneVal, path |-> NoneVal, templates |-> <<>>,
   symbology |-> <<>>, created_date |-> NoDate]

\* TemplateSettings.from_qgs_settings, read inside the group `base`
TemplateSettings_from_qgs_settings(s, base) ==
  [name |-> value(s, base \o <<"name">>), id |-> value(s, base \o <<"id">>)]

SymbologySettings_from_qgs_settings(s, base) ==
  [name |-> value(s, base \o <<"name">>), id |-> value(s, base \o <<"id">>)]

get_templates(s, profile_identifier) ==
  LET group == _get_profile_settings_base(str(profile_identifier))
                 \o <<TEMPLATE_GROUP_NAME>>
      names == childGroups(s, group)
  IN [i \in 1..Len(names) |->
        TemplateSettings_from_qgs_settings(
          s, _get_template_settings_base(str(profile_identifier), names[i]))]

get_symbology(s, profile_identifier) ==
  LET group == _get_profile_settings_base(str(profile_identifier))
                 \o <<SYMBOLOGY_GROUP_NAME>>
      names == childGroups(s, group)
  IN [i \in 1..Len(names) |->
        SymbologySettings_from_qgs_settings(
          s, _get_symbology_settings_base(str(profile_identifier), names[i]))]

\* datetime.datetime.now(), read by the AttributeError handler only
datetime_now == CHOOSE t \in Times : \A u \in Times : u <= t

\* ProfileSettings.from_qgs_settings(identifier, settings): `identifier` is text.
\* The try block catches AttributeError only; any other exception leaves
\* the function.
from_qgs_settings(s, identifier) ==
  IF ~IsUuidText(identifier)
  THEN [raised |-> "ValueError(badly formed UUID)", value |-> NoProfile]
  ELSE
    LET base == _get_profile_settings_base(identifier)
        templates == get_templates(s, UUID(identifier))
        symbology == get_symbology(s, UUID(identifier))
        stored == value(s, base \o <<"created_date">>)
        try == IF stored # NoneVal
               THEN strptime(stored)
               ELSE [raised |-> "none", value |-> NoDate]
        created_date == IF try.raised = "AttributeError"
                        THEN datetime_now ELSE try.value
    IN IF try.raised \notin {"none", "AttributeError"}
       THEN [raised |-> "ValueError(strptime)", value |-> NoProfile]
       ELSE [raised |-> "none",
             value |-> [id |-> UUID(identifier),
                        name |-> value(s, base \o <<"name">>),
                        path |-> value(s, base \o <<"path">>),
                        templates |-> templates,
                        symbology |-> symbology,
                        created_date |-> created_date]]

\* --------------------------------------------------- SettingsManager: reads
FirstRaised(rs) ==
  LET i == CHOOSE j \in 1..Len(rs) :
             rs[j].raised # "none" /\ \A h \in 1..(j - 1) : rs[h].raised = "none"
  IN rs[i].raised

list_profiles(s) ==
  LET groups == childGroups(s, ProfilesRoot)
      decoded == [i \in 1..Len(groups) |-> from_qgs_settings(s, groups[i])]
  IN IF \E i \in 1..Len(groups) : decoded[i].raised # "none"
     THEN [raised |-> FirstRaised(decoded), value |-> <<>>]
     ELSE [raised |-> "none", value |-> [i \in 1..Len(groups) |-> decoded[i].value]]

get_profile_settings(s, identifier) ==
  from_qgs_settings(s, str(identifier))

get_current_profile(s) ==
  LET current == value(s, SelectedKey)
  IN IF current # NoneVal
     THEN IF IsUuidText(current)
          THEN get_profile_settings(s, UUID(current))
          ELSE [raised |-> "ValueError(badly formed UUID)", value |-> NoProfile]
     ELSE [raised |-> "none", value |-> NoProfile]

\* a > b on created_date: TypeError when either side is None
DateGreater(a, b) ==
  IF a = NoDate \/ b = NoDate
  THEN [raised |-> "TypeError", value |-> FALSE]
  ELSE [raised |-> "none", value |-> a > b]

\* the loop of get_latest_profile from position i with the running maximum
RECURSIVE LatestFrom(_, _, _)
LatestFrom(profile_list, i, latest_profile) ==
  IF i > Len(profile_list)
  THEN [raised |-> "none", value |-> latest_profile]
  ELSE LET cmp == DateGreater(profile_list[i].created_date,
                              latest_profile.created_date)
       IN IF cmp.raised # "none"
          THEN [raised |-> cmp.raised, value |-> NoProfile]
          ELSE LatestFrom(profile_list, i + 1,
                          IF cmp.value THEN profile_list[i] ELSE latest_profile)

get_latest_profile(s) ==
  LET listed == list_profiles(s)
  IN IF listed.raised # "none"
     THEN [raised |-> listed.raised, value |-> NoProfile]
     ELSE IF Len(listed.value) < 1
          THEN [raised |-> "none", value |-> NoProfile]
          ELSE LatestFrom(listed.value, 1, listed.value[1])

\* is_current_profile that only tests whether a profile is selected
is_current_profile_any(s, identifier) ==
  LET current == get_current_profile(s)
  IN [raised |-> current.raised, value |-> current.value # NoProfile]

is_current_profile(s, identifier) ==
  LET current == get_current_profile(s)
  IN IF current.raised # "none"
     THEN [raised |-> current.raised, value |-> FALSE]
     ELSE [raised |-> "none",
           value |-> IF current.value = NoProfile
                     THEN FALSE
                     ELSE current.value.id = identifier]

is_profile(s, identifier) ==
  LET profiles == list_profiles(s)
  IN IF profiles.raised # "none"
     THEN [raised |-> profiles.raised, value |-> FALSE]
     ELSE [raised |-> "none",
           value |-> \E i \in 1..Len(profiles.value) :
                       profiles.value[i].id = identifier]

\* find_profile_by_name whose scan keeps the last match instead of breaking
find_profile_by_name_last_match(s, name) ==
  LET groups == childGroups(s, ProfilesRoot)
      hits == {i \in 1..Len(groups) :
                 value(s, _get_profile_settings_base(groups[i]) \o <<"name">>) = name}
  IN IF hits = {}
     THEN [raised |-> "ValueError(Could not find a profile)", value |-> NoProfile]
     ELSE LET last == CHOOSE i \in hits : \A j \in hits : j <= i
          IN get_profile_settings(s, UUID(groups[last]))

find_profile_by_name(s, name) ==
  LET groups == childGroups(s, ProfilesRoot)
      hits == {i \in 1..Len(groups) :
                 value(s, _get_profile_settings_base(groups[i]) \o <<"name">>) = name}
  IN IF hits = {}
     THEN [raised |-> "ValueError(Could not find a profile)", value |-> NoProfile]
     ELSE LET first == CHOOSE i \in hits : \A j \in hits : i <= j
          IN IF IsUuidText(groups[first])
             THEN get_profile_settings(s, UUID(groups[first]))
             ELSE [raised |-> "ValueError(badly formed UUID)", value |-> NoProfile]

\* -------------------------------------------------- SettingsManager: writes
\* A mutating method is the sequence of store effects it performs, in program
\* order: setValue, remove, and the emission of profiles_settings_updated.
SetEff(key, val) == [k |-> "set", key |-> key, val |-> val]

RemoveEff(key) == [k |-> "remove", key |-> key, val |-> NoneVal]

EmitEff == [k |-> "emit", key |-> <<>>, val |-> NoneVal]

Apply(s, e) ==
  CASE e.k = "set" -> setValue(s, e.key, e.val)
    [] e.k = "remove" -> remove(s, e.key)
    [] OTHER -> s

RECURSIVE Run(_, _)
Run(s, effs) ==
  IF effs = <<>> THEN s ELSE Run(Apply(s, Head(effs)), Tail(effs))

\* the store as a listener sees it at each emission
RECURSIVE EmitSnapshots(_, _)
EmitSnapshots(s, effs) ==
  IF effs = <<>> THEN <<>>
  ELSE IF Head(effs).k = "emit"
       THEN <<s>> \o EmitSnapshots(s, Tail(effs))
       ELSE EmitSnapshots(Apply(s, Head(effs)), Tail(effs))

RECURSIVE Flatten(_)
Flatten(seqs) ==
  IF seqs = <<>> THEN <<>> ELSE Head(seqs) \o Flatten(Tail(seqs))

save_template(profile, template_settings) ==
  LET settings_key == _get_template_settings_base(str(profile.id), template_settings.id)
  IN <<SetEff(settings_key \o <<"name">>, template_settings.name),
       SetEff(settings_key \o <<"id">>, template_settings.id)>>

save_symbology(profile, symbology_settings) ==
  LET settings_key == _get_symbology_settings_base(str(profile.id), symbology_settings.id)
  IN <<SetEff(settings_key \o <<"name">>, symbology_settings.name),
       SetEff(settings_key \o <<"id">>, symbology_settings.id)>>

\* save_profile_settings that, for a profile already stored, ends by removing
\* the stored group
save_profile_settings_drops_stored(profile_settings) ==
  LET settings_key == _get_profile_settings_base(str(profile_settings.id))
      created_date == strftime(profile_settings.created_date)
  IN <<SetEff(settings_key \o <<"name">>, profile_settings.name),
       SetEff(settings_key \o <<"path">>, profile_settings.path),
       SetEff(settings_key \o <<"created_date">>, created_date)>>
     \o (IF settings_key \o <<"name">> \in DOMAIN store
         THEN <<RemoveEff(settings_key)>> ELSE <<>>)
     \o <<EmitEff>>

\* save_profile_settings that writes the profile's own fields first
save_profile_settings_scalars_first(profile_settings) ==
  LET settings_key == _get_profile_settings_base(str(profile_settings.id))
      created_date == strftime(profile_settings.created_date)
  IN <<SetEff(settings_key \o <<"name">>, profile_settings.name),
       SetEff(settings_key \o <<"path">>, profile_settings.path),
       SetEff(settings_key \o <<"created_date">>, created_date)>>
     \o Flatten([i \in 1..Len(profile_settings.templates) |->
                   save_template(profile_settings, profile_settings.templates[i])])
     \o Flatten([i \in 1..Len(profile_settings.symbology) |->
                   save_symbology(profile_settings, profile_settings.symbology[i])])
     \o <<EmitEff>>

save_profile_settings(profile_settings) ==
  LET settings_key == _get_profile_settings_base(str(profile_settings.id))
      created_date == strftime(profile_settings.created_date)
  IN Flatten([i \in 1..Len(profile_settings.templates) |->
                save_template(profile_settings, profile_settings.templates[i])])
     \o Flatten([i \in 1..Len(profile_settings.symbology) |->
                   save_symbology(profile_settings, profile_settings.symbology[i])])
     \o <<SetEff(settings_key \o <<"name">>, profile_settings.name),
          SetEff(settings_key \o <<"path">>, profile_settings.path),
          SetEff(settings_key \o <<"created_date">>, created_date),
          EmitEff>>

clear_current_profile ==
  <<SetEff(SelectedKey, NoneVal), EmitEff>>

\* delete_profile without the test of the active profile
delete_profile_keeps_pointer(s, identifier) ==
  [raised |-> "none",
   effs |-> <<RemoveEff(ProfilesRoot \o <<str(identifier)>>), EmitEff>>]

\* delete_profile whose remove() is given the name of another group
delete_profile_keeps_subtree(s, identifier) ==
  LET current == is_current_profile(s, identifier)
  IN [raised |-> current.raised,
      effs |-> (IF current.value THEN clear_current_profile ELSE <<>>)
               \o <<RemoveEff(<<BASE_GROUP_NAME, str(identifier)>>), EmitEff>>]

\* delete_profile that clears the pointer whichever profile is deleted
delete_profile_always_clears(s, identifier) ==
  [raised |-> "none",
   effs |-> clear_current_profile
            \o <<RemoveEff(ProfilesRoot \o <<str(identifier)>>), EmitEff>>]

\* delete_profile that removes the group before it clears the pointer
delete_profile_removes_first(s, identifier) ==
  LET current == is_current_profile(s, identifier)
  IN [raised |-> current.raised,
      effs |-> <<RemoveEff(ProfilesRoot \o <<str(identifier)>>)>>
               \o (IF current.value THEN clear_current_profile ELSE <<>>)
               \o <<EmitEff>>]

\* delete_profile that removes the profile's own three fields only
delete_profile_removes_scalars_only(s, identifier) ==
  LET current == is_current_profile(s, identifier)
      base == ProfilesRoot \o <<str(identifier)>>
  IN [raised |-> current.raised,
      effs |-> (IF current.value THEN clear_current_profile ELSE <<>>)
               \o <<RemoveEff(base \o <<"name">>), RemoveEff(base \o <<"path">>),
                    RemoveEff(base \o <<"created_date">>), EmitEff>>]

delete_profile(s, identifier) ==
  LET current == is_current_profile(s, identifier)
  IN IF current.raised # "none"
     THEN [raised |-> current.raised, effs |-> <<>>]
     ELSE [raised |-> "none",
           effs |-> (IF current.value THEN clear_current_profile ELSE <<>>)
                    \o <<RemoveEff(ProfilesRoot \o <<str(identifier)>>), EmitEff>>]

\* delete_all_profiles without the call of clear_current_profile
delete_all_profiles_keeps_pointer(s) ==
  LET groups == childGroups(s, ProfilesRoot)
  IN [i \in 1..Len(groups) |-> RemoveEff(ProfilesRoot \o <<groups[i]>>)]
     \o <<EmitEff>>

\* delete_all_profiles that notifies after the removals and clears the
\* pointer afterwards
delete_all_profiles_emits_before_clear(s) ==
  LET groups == childGroups(s, ProfilesRoot)
  IN [i \in 1..Len(groups) |-> RemoveEff(ProfilesRoot \o <<groups[i]>>)]
     \o <<EmitEff>>
     \o clear_current_profile

delete_all_profiles(s) ==
  LET groups == childGroups(s, ProfilesRoot)
  IN [i \in 1..Len(groups) |-> RemoveEff(ProfilesRoot \o <<groups[i]>>)]
     \o clear_current_profile
     \o <<EmitEff>>

\* set_current_profile without the membership test
set_current_profile_unchecked(s, identifier) ==
  [raised |-> "none", effs |-> <<SetEff(SelectedKey, str(identifier)), EmitEff>>]

set_current_profile(s, identifier) ==
  LET listed == list_profiles(s)
  IN IF listed.raised # "none"
     THEN [raised |-> listed.raised, effs |-> <<>>]
     ELSE IF \A i \in 1..Len(listed.value) : listed.value[i].id # identifier
          THEN [raised |-> "ValueError(Invalid profile identifier)", effs |-> <<>>]
          ELSE [raised |-> "none",
                effs |-> <<SetEff(SelectedKey, str(identifier)), EmitEff>>]

\* ------------------------------------------------------- group scoping
\* What a method does to the group scopes of its QgsSettings handles.  The
\* body of a method is written as the sequence of its beginGroup, endGroup
\* and raise steps in program order; Unwind then gives the steps that run:
\* all of them up to the first raise and, past it, only the endGroup calls
\* that stand in a finally clause of a with-block still open.  Every
\* `with qgis_settings(...)` of the module is entered without a settings
\* argument, so each one works on a handle of its own; the handle is named
\* by the group it is opened on.
BeginGroup(group_root) ==
  [e |-> "beginGroup", g |-> group_root, finally |-> FALSE]

EndGroup(group_root) ==
  [e |-> "endGroup", g |-> group_root, finally |-> TRUE]

Skip == <<>>

Raise(exception) ==
  IF exception = "none" THEN <<>>
  ELSE <<[e |-> "raise", g |-> <<exception>>, finally |-> FALSE]>>

\* the context manager without its try / finally: endGroup is a plain
\* statement after the yield
qgis_settings_no_finally(group_root, body) ==
  <<BeginGroup(group_root)>> \o body
    \o <<[e |-> "endGroup", g |-> group_root, finally |-> FALSE]>>

\* with qgis_settings(group_root) as settings: body
qgis_settings(group_root, body) ==
  <<BeginGroup(group_root)>> \o body \o <<EndGroup(group_root)>>

\* the steps from position k on that still run once an exception propagates;
\* skipped counts the with-blocks that would have been entered after it
RECURSIVE Finally(_, _, _)
Finally(steps, k, skipped) ==
  IF k > Len(steps) THEN <<>>
  ELSE IF steps[k].e = "beginGroup" THEN Finally(steps, k + 1, skipped + 1)
  ELSE IF steps[k].e = "raise" THEN Finally(steps, k + 1, skipped)
  ELSE IF skipped > 0 THEN Finally(steps, k + 1, skipped - 1)
  ELSE (IF steps[k].finally THEN <<steps[k]>> ELSE <<>>)
         \o Finally(steps, k + 1, 0)

Unwind(steps) ==
  LET raises == {i \in 1..Len(steps) : steps[i].e = "raise"}
      first == CHOOSE i \in raises : \A j \in raises : i <= j
  IN IF raises = {} THEN [events |-> steps, raised |-> "none"]
     ELSE [events |-> SubSeq(steps, 1, first - 1) \o Finally(steps, first + 1, 0),
           raised |-> steps[first].g[1]]

scope_get_templates(s, profile_identifier) ==
  LET group == _get_profile_settings_base(str(profile_identifier))
                 \o <<TEMPLATE_GROUP_NAME>>
      names == childGroups(s, group)
  IN qgis_settings(group,
       Flatten([i \in 1..Len(names) |->
                  qgis_settings(
                    _get_template_settings_base(str(profile_identifier), names[i]),
                    Skip)]))

scope_get_symbology(s, profile_identifier) ==
  LET group == _get_profile_settings_base(str(profile_identifier))
                 \o <<SYMBOLOGY_GROUP_NAME>>
      names == childGroups(s, group)
  IN qgis_settings(group,
       Flatten([i \in 1..Len(names) |->
                  qgis_settings(
                    _get_symbology_settings_base(str(profile_identifier), names[i]),
                    Skip)]))

scope_from_qgs_settings(s, identifier) ==
  IF ~IsUuidText(identifier)
  THEN Raise("ValueError(badly formed UUID)")
  ELSE scope_get_templates(s, UUID(identifier))
         \o scope_get_symbology(s, UUID(identifier))
         \o Raise(from_qgs_settings(s, identifier).raised)

scope_list_profiles(s) ==
  LET groups == childGroups(s, ProfilesRoot)
  IN qgis_settings(ProfilesRoot,
       Flatten([i \in 1..Len(groups) |->
                  qgis_settings(_get_profile_settings_base(groups[i]),
                                scope_from_qgs_settings(s, groups[i]))]))

scope_get_profile_settings(s, identifier) ==
  qgis_settings(_get_profile_settings_base(str(identifier)),
                scope_from_qgs_settings(s, str(identifier)))

scope_find_profile_by_name(s, name) ==
  LET groups == childGroups(s, ProfilesRoot)
      hits == {i \in 1..Len(groups) :
                 value(s, _get_profile_settings_base(groups[i]) \o <<"name">>) = name}
      last == IF hits = {} THEN Len(groups)
              ELSE CHOOSE i \in hits : \A j \in hits : i <= j
      scan == Flatten([i \in 1..last |->
                 qgis_settings(
                   _get_profile_settings_base(groups[i]),
                   IF i \in hits /\ ~IsUuidText(groups[i])
                   THEN Raise("ValueError(badly formed UUID)") ELSE Skip)])
  IN IF hits = {}
     THEN qgis_settings(ProfilesRoot,
            scan \o Raise("ValueError(Could not find a profile)"))
     ELSE qgis_settings(ProfilesRoot, scan)
            \o (IF IsUuidText(groups[last])
                THEN scope_get_profile_settings(s, UUID(groups[last]))
                ELSE Skip)

scope_save_template(profile, template_settings) ==
  qgis_settings(
    _get_template_settings_base(str(profile.id), template_settings.id), Skip)

scope_save_symbology(profile, symbology_settings) ==
  qgis_settings(
    _get_symbology_settings_base(str(profile.id), symbology_settings.id), Skip)

scope_save_profile_settings(profile_settings) ==
  Flatten([i \in 1..Len(profile_settings.templates) |->
     scope_save_template(profile_settings, profile_settings.templates[i])])
  \o Flatten([i \in 1..Len(profile_settings.symbology) |->
       scope_save_symbology(profile_settings, profile_settings.symbology[i])])
  \o qgis_settings(_get_profile_settings_base(str(profile_settings.id)), Skip)

scope_get_current_profile(s) ==
  LET current == value(s, SelectedKey)
  IN qgis_settings(<<BASE_GROUP_NAME>>, Skip)
       \o (IF current = NoneVal THEN Skip
           ELSE IF IsUuidText(current)
                THEN scope_get_profile_settings(s, UUID(current))
                ELSE Raise("ValueError(badly formed UUID)"))

scope_clear_current_profile == qgis_settings(<<BASE_GROUP_NAME>>, Skip)

scope_delete_profile(s, identifier) ==
  LET current == is_current_profile(s, identifier)
  IN scope_get_current_profile(s)
       \o (IF current.raised = "none" /\ current.value
           THEN scope_clear_current_profile ELSE Skip)
       \o qgis_settings(ProfilesRoot, Skip)

scope_delete_all_profiles ==
  qgis_settings(ProfilesRoot, Skip) \o scope_clear_current_profile

scope_set_current_profile(s, identifier) ==
  LET listed == list_profiles(s)
  IN scope_list_profiles(s)
       \o (IF listed.raised # "none" THEN Skip
           ELSE IF \A i \in 1..Len(listed.value) : listed.value[i].id # identifier
                THEN Raise("ValueError(Invalid profile identifier)")
                ELSE qgis_settings(<<BASE_GROUP_NAME>>, Skip))

scope_get_latest_profile(s) ==
  scope_list_profiles(s) \o Raise(get_latest_profile(s).raised)

\* the scoping of the call `op` made on store s
ScopeTrace(s, op, identifier, profile, arg) ==
  CASE op = "saveProfile" -> Unwind(scope_save_profile_settings(profile))
    [] op = "saveTemplate" ->
         Unwind(scope_save_template([id |-> identifier], [id |-> arg]))
    [] op = "saveSymbology" ->
         Unwind(scope_save_symbology([id |-> identifier], [id |-> arg]))
    [] op = "deleteProfile" -> Unwind(scope_delete_profile(s, identifier))
    [] op = "deleteAllProfiles" -> Unwind(scope_delete_all_profiles)
    [] op = "setCurrentProfile" -> Unwind(scope_set_current_profile(s, identifier))
    [] op = "clearCurrentProfile" -> Unwind(scope_clear_current_profile)
    [] op = "listProfiles" -> Unwind(scope_list_profiles(s))
    [] op = "getProfile" -> Unwind(scope_get_profile_settings(s, identifier))
    [] op = "findProfileByName" -> Unwind(scope_find_profile_by_name(s, arg))
    [] op = "getCurrentProfile" -> Unwind(scope_get_current_profile(s))
    [] op = "getLatestProfile" -> Unwind(scope_get_latest_profile(s))
    [] op = "isCurrentProfile" -> Unwind(scope_get_current_profile(s))
    [] op = "profileExists" -> Unwind(scope_list_profiles(s))
    [] op = "getTemplates" -> Unwind(scope_get_templates(s, identifier))
    [] op = "getSymbology" -> Unwind(scope_get_symbology(s, identifier))
    [] OTHER -> Unwind(Skip)

\* ------------------------------------------------------------------ inputs
Templates == [id : TemplateIds, name : ChildNames]
Symbologies == [id : SymbologyIds, name : ChildNames]

\* the lists a caller passes: each subset once, in identifier order
TemplateLists ==
  {[i \in 1..Len(SortedNames(S)) |->
      [id |-> SortedNames(S)[i], name |-> "Basic"]] : S \in SUBSET TemplateIds}

SymbologyLists ==
  {[i \in 1..Len(SortedNames(S)) |->
      [id |-> SortedNames(S)[i], name |-> "Basic"]] : S \in SUBSET SymbologyIds}

Profiles ==
  [id : ProfileIds, name : ProfileNames, path : ProfilePaths,
   templates : TemplateLists, symbology : SymbologyLists, created_date : Times]

\* a record of one call
Call(op, identifier, profile, arg, raised, result, effs) ==
  [op |-> op, id |-> identifier, profile |-> profile, arg |-> arg,
   raised |-> raised, result |-> result, pre |-> store,
   log |-> effs, emitted |-> EmitSnapshots(store, effs)]

Init ==
  /\ store = EmptyStore
  /\ lastOp = [op |-> "init", id |-> 0, profile |-> NoProfile, arg |-> NoneVal,
               raised |-> "none", result |-> NoneVal, pre |-> EmptyStore,
               log |-> <<>>, emitted |-> <<>>]
  /\ calls = 0

\* Every action is one complete call: it counts the call, applies the
\* effects the method performed (none when it raised) and records the call.
SaveProfile ==
  \E P \in Profiles :
    LET effs == save_profile_settings(P)
    IN /\ calls < MaxCalls
       /\ calls' = calls + 1
       /\ store' = Run(store, effs)
       /\ lastOp' = Call("saveProfile", P.id, P, NoneVal, "none", NoneVal, effs)

SaveTemplate ==
  \E id \in ProfileIds, t \in Templates :
    LET effs == save_template([id |-> id], t)
    IN /\ calls < MaxCalls
       /\ calls' = calls + 1
       /\ store' = Run(store, effs)
       /\ lastOp' = Call("saveTemplate", id, NoProfile, t.id, "none", NoneVal, effs)

SaveSymbology ==
  \E id \in ProfileIds, y \in Symbologies :
    LET effs == save_symbology([id |-> id], y)
    IN /\ calls < MaxCalls
       /\ calls' = calls + 1
       /\ store' = Run(store, effs)
       /\ lastOp' = Call("saveSymbology", id, NoProfile, y.id, "none", NoneVal, effs)

DeleteProfile ==
  \E id \in ProfileIds :
    LET r == delete_profile(store, id)
    IN /\ calls < MaxCalls
       /\ calls' = calls + 1
       /\ store' = Run(store, r.effs)
       /\ lastOp' = Call("deleteProfile", id, NoProfile, NoneVal, r.raised, NoneVal, r.effs)

DeleteAllProfiles ==
  LET effs == delete_all_profiles(store)
  IN /\ calls < MaxCalls
     /\ calls' = calls + 1
     /\ store' = Run(store, effs)
     /\ lastOp' = Call("deleteAllProfiles", 0, NoProfile, NoneVal, "none", NoneVal, effs)

SetCurrentProfile ==
  \E id \in ProfileIds :
    LET r == set_current_profile(store, id)
    IN /\ calls < MaxCalls
       /\ calls' = calls + 1
       /\ store' = Run(store, r.effs)
       /\ lastOp' = Call("setCurrentProfile", id, NoProfile, NoneVal, r.raised,
                         NoneVal, r.effs)

ClearCurrentProfile ==
  LET effs == clear_current_profile
  IN /\ calls < MaxCalls
     /\ calls' = calls + 1
     /\ store' = Run(store, effs)
     /\ lastOp' = Call("clearCurrentProfile", 0, NoProfile, NoneVal, "none", NoneVal, effs)

ListProfiles ==
  LET r == list_profiles(store)
  IN /\ calls < MaxCalls
     /\ calls' = calls + 1
     /\ store' = store
     /\ lastOp' = Call("listProfiles", 0, NoProfile, NoneVal, r.raised, r.value, <<>>)

GetProfile ==
  \E id \in ProfileIds :
    LET r == get_profile_settings(store, id)
    IN /\ calls < MaxCalls
       /\ calls' = calls + 1
       /\ store' = store
       /\ lastOp' = Call("getProfile", id, NoProfile, NoneVal, r.raised, r.value, <<>>)

FindProfileByName ==
  \E name \in ProfileNames :
    LET r == find_profile_by_name(store, name)
    IN /\ calls < MaxCalls
       /\ calls' = calls + 1
       /\ store' = store
       /\ lastOp' = Call("findProfileByName", 0, NoProfile, name, r.raised, r.value, <<>>)

GetCurrentProfile ==
  LET r == get_current_profile(store)
  IN /\ calls < MaxCalls
     /\ calls' = calls + 1
     /\ store' = store
     /\ lastOp' = Call("getCurrentProfile", 0, NoProfile, NoneVal, r.raised, r.value, <<>>)

GetLatestProfile ==
  LET r == get_latest_profile(store)
  IN /\ calls < MaxCalls
     /\ calls' = calls + 1
     /\ store' = store
     /\ lastOp' = Call("getLatestProfile", 0, NoProfile, NoneVal, r.raised, r.value, <<>>)

IsCurrentProfile ==
  \E id \in ProfileIds :
    LET r == is_current_profile(store, id)
    IN /\ calls < MaxCalls
       /\ calls' = calls + 1
       /\ store' = store
       /\ lastOp' = Call("isCurrentProfile", id, NoProfile, NoneVal, r.raised, r.value, <<>>)

ProfileExists ==
  \E id \in ProfileIds :
    LET r == is_profile(store, id)
    IN /\ calls < MaxCalls
       /\ calls' = calls + 1
       /\ store' = store
       /\ lastOp' = Call("profileExists", id, NoProfile, NoneVal, r.raised, r.value, <<>>)

GetTemplates ==
  \E id \in ProfileIds :
    /\ calls < MaxCalls
    /\ calls' = calls + 1
    /\ store' = store
    /\ lastOp' = Call("getTemplates", id, NoProfile, NoneVal, "none",
                      get_templates(store, id), <<>>)

GetSymbology ==
  \E id \in ProfileIds :
    /\ calls < MaxCalls
    /\ calls' = calls + 1
    /\ store' = store
    /\ lastOp' = Call("getSymbology", id, NoProfile, NoneVal, "none",
                      get_symbology(store, id), <<>>)

Next ==
  \/ SaveProfile
  \/ SaveTemplate
  \/ SaveSymbology
  \/ DeleteProfile
  \/ DeleteAllProfiles
  \/ SetCurrentProfile
  \/ ClearCurrentProfile
  \/ ListProfiles
  \/ GetProfile
  \/ FindProfileByName
  \/ GetCurrentProfile
  \/ GetLatestProfile
  \/ IsCurrentProfile
  \/ ProfileExists
  \/ GetTemplates
  \/ GetSymbology

Spec == Init /\ [][Next]_vars

\* ------------------------------------------------- the generic key accessors
\* set_value / get_value / remove address any key below the base group, the
\* keys of the profiles included.
RawNames ==
  {<<PROFILE_GROUP_NAME, str(id), "created_date">> : id \in ProfileIds}
    \cup {<<SELECTED_PROFILE_KEY>>}

RawValues == {MalformedDate, DateText[1], UuidText[1]}

set_value(name, val) == <<SetEff(<<BASE_GROUP_NAME>> \o name, val)>>

get_value(s, name) == value(s, <<BASE_GROUP_NAME>> \o name)

remove_name(name) == <<RemoveEff(<<BASE_GROUP_NAME>> \o name)>>

SetValue ==
  \E name \in RawNames, val \in RawValues :
    LET effs == set_value(name, val)
    IN /\ calls < MaxCalls
       /\ calls' = calls + 1
       /\ store' = Run(store, effs)
       /\ lastOp' = Call("set_value", 0, NoProfile, name, "none", NoneVal, effs)

GetValue ==
  \E name \in RawNames :
    /\ calls < MaxCalls
    /\ calls' = calls + 1
    /\ store' = store
    /\ lastOp' = Call("get_value", 0, NoProfile, name, "none",
                      get_value(store, name), <<>>)

RemoveValue ==
  \E name \in RawNames :
    LET effs == remove_name(name)
    IN /\ calls < MaxCalls
       /\ calls' = calls + 1
       /\ store' = Run(store, effs)
       /\ lastOp' = Call("remove", 0, NoProfile, name, "none", NoneVal, effs)

NextRaw ==
  \/ Next
  \/ SetValue
  \/ GetValue
  \/ RemoveValue

SpecRaw == Init /\ [][NextRaw]_vars

\* ================================================================== claims
ChildIdSet(children) == {children[i].id : i \in 1..Len(children)}

\* identifiers of the profiles list_profiles returns
ListedIds(s) ==
  {list_profiles(s).value[i].id : i \in 1..Len(list_profiles(s).value)}

MutatingOps ==
  {"saveProfile", "deleteProfile", "deleteAllProfiles", "setCurrentProfile",
   "clearCurrentProfile"}

NonFailingOps ==
  {"listProfiles", "getProfile", "getCurrentProfile", "getLatestProfile",
   "isCurrentProfile", "profileExists", "deleteProfile", "deleteAllProfiles"}

\* C1: after saveProfile(P), getProfile(P.id) returns P's name, path and
\* created_date instant and exactly P's sets of template ids and symbology
\* ids, whatever was stored under P.id before.
C1_SaveLoadRoundTrip ==
  lastOp.op = "saveProfile" =>
    LET P == lastOp.profile
        r == get_profile_settings(store, P.id)
    IN /\ r.raised = "none"
       /\ r.value.name = P.name
       /\ r.value.path = P.path
       /\ r.value.created_date = P.created_date
       /\ ChildIdSet(r.value.templates) = ChildIdSet(P.templates)
       /\ ChildIdSet(r.value.symbology) = ChildIdSet(P.symbology)

\* C2: after any sequence of completed Settings Manager calls from the empty
\* store, the active-profile pointer is absent or is the id of a profile
\* that listProfiles() returns.
C2_ActivePointerNamesListedProfile ==
  LET current == value(store, SelectedKey)
  IN \/ current = NoneVal
     \/ /\ list_profiles(store).raised = "none"
        /\ \E id \in ListedIds(store) : str(id) = current

\* C2 witness: the active profile has just been deleted and the pointer is
\* cleared while another call had set it.
C2_Witness ==
  /\ lastOp.op = "deleteProfile"
  /\ value(lastOp.pre, SelectedKey) = str(lastOp.id)
  /\ lastOp.id \in ListedIds(lastOp.pre)
  /\ value(store, SelectedKey) = NoneVal

\* C3: every completed saveProfile, deleteProfile, deleteAllProfiles,
\* setCurrentProfile and clearCurrentProfile delivers exactly one change
\* notification.
C3_ExactlyOneNotification ==
  (lastOp.op \in MutatingOps /\ lastOp.raised = "none") =>
    Len(lastOp.emitted) = 1

\* C4: setCurrentProfile(id) fails with InvalidReference when id is not a
\* listed profile, leaving the store as it was and notifying nobody; when id
\* is listed it succeeds and the pointer becomes id.
C4_SetCurrentProfileChecksReference ==
  lastOp.op = "setCurrentProfile" =>
    IF lastOp.id \in ListedIds(lastOp.pre)
    THEN /\ lastOp.raised = "none"
         /\ value(store, SelectedKey) = str(lastOp.id)
    ELSE /\ lastOp.raised = "ValueError(Invalid profile identifier)"
         /\ store = lastOp.pre
         /\ lastOp.emitted = <<>>

\* C4 witness: a profile is stored and active, and setCurrentProfile is
\* refused for another id.
C4_Witness ==
  /\ lastOp.op = "setCurrentProfile"
  /\ lastOp.raised = "ValueError(Invalid profile identifier)"
  /\ ListedIds(lastOp.pre) # {}
  /\ value(lastOp.pre, SelectedKey) # NoneVal

\* C5: after a completed deleteProfile(id) of the active profile,
\* getCurrentProfile() returns none, id is not listed and profileExists(id)
\* is false.
C5_DeleteActiveProfileClearsPointer ==
  (/\ lastOp.op = "deleteProfile"
   /\ lastOp.raised = "none"
   /\ is_current_profile(lastOp.pre, lastOp.id).value) =>
    /\ get_current_profile(store) = [raised |-> "none", value |-> NoProfile]
    /\ lastOp.id \notin ListedIds(store)
    /\ is_profile(store, lastOp.id) = [raised |-> "none", value |-> FALSE]

\* C5 witness: the deleted profile was active and had a template.
C5_Witness ==
  /\ lastOp.op = "deleteProfile"
  /\ lastOp.raised = "none"
  /\ is_current_profile(lastOp.pre, lastOp.id).value
  /\ get_templates(lastOp.pre, lastOp.id) # <<>>

\* C6: after deleteAllProfiles(), listProfiles() is empty and
\* getCurrentProfile() returns none.
C6_DeleteAllLeavesNothing ==
  lastOp.op = "deleteAllProfiles" =>
    /\ list_profiles(store) = [raised |-> "none", value |-> <<>>]
    /\ get_current_profile(store) = [raised |-> "none", value |-> NoProfile]

\* C6 witness: deleteAllProfiles ran on a store that held a profile with a
\* child and an active pointer.
C6_Witness ==
  /\ lastOp.op = "deleteAllProfiles"
  /\ value(lastOp.pre, SelectedKey) # NoneVal
  /\ \E id \in ListedIds(lastOp.pre) :
       get_templates(lastOp.pre, id) # <<>> \/ get_symbology(lastOp.pre, id) # <<>>

\* C7: decoding a profile whose created_date key is absent (getProfile,
\* listProfiles) yields a created_date that is a timestamp, never none.
C7_AbsentDateDecodesToTimestamp ==
  /\ (/\ lastOp.op = "getProfile"
      /\ value(store, _get_profile_settings_base(str(lastOp.id))
                        \o <<"created_date">>) = NoneVal) =>
       /\ lastOp.raised = "none"
       /\ lastOp.result.created_date \in Times
  /\ (lastOp.op = "listProfiles" /\ lastOp.raised = "none") =>
       \A i \in 1..Len(lastOp.result) : lastOp.result[i].created_date \in Times

\* C8: decoding a profile whose created_date is stored but is not in the
\* fixed format does not raise; getProfile returns the profile with the
\* current time as created_date, and listProfiles returns as well.
C8_MalformedDateDecodesToNow ==
  /\ (/\ lastOp.op = "getProfile"
      /\ value(store, _get_profile_settings_base(str(lastOp.id))
                        \o <<"created_date">>) = MalformedDate) =>
       /\ lastOp.raised = "none"
       /\ lastOp.result.created_date = datetime_now
  /\ lastOp.op = "listProfiles" => lastOp.raised = "none"

\* C9: listProfiles, getProfile, getCurrentProfile, getLatestProfile,
\* isCurrentProfile, profileExists, deleteProfile and deleteAllProfiles
\* never raise, in any store the Settings Manager calls can leave.
C9_OnlyTwoOperationsFail ==
  lastOp.op \in NonFailingOps => lastOp.raised = "none"

\* C10: getLatestProfile() returns none when nothing is stored; otherwise it
\* returns the listed profile with the greatest created_date, the first of
\* them in listProfiles() order.
C10_LatestProfileIsFirstMaximum ==
  lastOp.op = "getLatestProfile" =>
    LET listed == list_profiles(store).value
    IN /\ lastOp.raised = "none"
       /\ IF listed = <<>>
          THEN lastOp.result = NoProfile
          ELSE \E i \in 1..Len(listed) :
                 /\ lastOp.result = listed[i]
                 /\ \A j \in 1..Len(listed) :
                      listed[j].created_date <= listed[i].created_date
                 /\ \A j \in 1..(i - 1) :
                      listed[j].created_date < listed[i].created_date

\* C11: findProfileByName(name) returns the first profile of listProfiles()
\* whose name is `name`, with that profile's templates and symbology; it
\* fails with NotFound iff no stored profile has the name; the store and the
\* active pointer are as before in both outcomes.
C11_FindReturnsFirstMatch ==
  lastOp.op = "findProfileByName" =>
    LET listed == list_profiles(lastOp.pre).value
        matches == {i \in 1..Len(listed) : listed[i].name = lastOp.arg}
    IN /\ store = lastOp.pre
       /\ IF matches = {}
          THEN lastOp.raised = "ValueError(Could not find a profile)"
          ELSE /\ lastOp.raised = "none"
               /\ \E i \in matches :
                    /\ \A j \in matches : i <= j
                    /\ lastOp.result = listed[i]
                    /\ lastOp.result.templates = get_templates(store, listed[i].id)
                    /\ lastOp.result.symbology = get_symbology(store, listed[i].id)

\* C11 witness: two stored profiles carry the name and differ in their
\* children; the first one is returned.
C11_Witness ==
  /\ lastOp.op = "findProfileByName"
  /\ lastOp.raised = "none"
  /\ LET listed == list_profiles(store).value
     IN /\ Len(listed) = 2
        /\ listed[1].name = lastOp.arg
        /\ listed[2].name = lastOp.arg
        /\ listed[1].templates # listed[2].templates
        /\ lastOp.result.id = listed[1].id

\* C12: isCurrentProfile(y) is true exactly for the id the pointer holds: for
\* no id when the pointer is absent, for at most one id otherwise, and after
\* a successful setCurrentProfile(x), as long as no call writes the pointer,
\* for y = x only.
C12_IsCurrentIffPointer ==
  /\ \A y \in ProfileIds :
       is_current_profile(store, y) =
         [raised |-> "none", value |-> (value(store, SelectedKey) = str(y))]
  /\ Cardinality({y \in ProfileIds : is_current_profile(store, y).value}) <= 1
  /\ (lastOp.op = "setCurrentProfile" /\ lastOp.raised = "none") =>
       \A y \in ProfileIds :
         is_current_profile(store, y).value <=> (y = lastOp.id)
  /\ (/\ lastOp.op \in {"saveProfile", "saveTemplate", "saveSymbology"}
      /\ value(lastOp.pre, SelectedKey) # NoneVal) =>
       \A y \in ProfileIds :
         is_current_profile(store, y).value
           <=> (str(y) = value(lastOp.pre, SelectedKey))

\* C12 witness: x was made current, a later call saved another profile, and
\* both are stored: x is current and the other one is not.
C12_Witness ==
  /\ lastOp.op = "saveProfile"
  /\ value(store, SelectedKey) # NoneVal
  /\ value(store, SelectedKey) # str(lastOp.id)
  /\ ListedIds(store) = ProfileIds
  /\ ~is_current_profile(store, lastOp.id).value
  /\ \E x \in ProfileIds : is_current_profile(store, x).value

\* C13: deleteProfile(id) for an id that listProfiles() does not return does
\* not fail and leaves the store (every profile, field and child, and the
\* active pointer) as it was.
C13_DeleteUnknownIsNoOp ==
  (lastOp.op = "deleteProfile" /\ lastOp.id \notin ListedIds(lastOp.pre)) =>
    /\ lastOp.raised = "none"
    /\ store = lastOp.pre

\* C13 witness: a profile is stored and active, and deleteProfile is called
\* for another id that is not stored.
C13_Witness ==
  /\ lastOp.op = "deleteProfile"
  /\ lastOp.id \notin ListedIds(lastOp.pre)
  /\ ListedIds(lastOp.pre) # {}
  /\ value(lastOp.pre, SelectedKey) # NoneVal
  /\ lastOp.raised = "none"

\* C14: saveProfile is idempotent on the store: saving the same profile a
\* second time leaves every key below the profiles root and the active
\* pointer as the first save left them.
C14_SaveProfileIdempotent ==
  lastOp.op = "saveProfile" =>
    Run(store, save_profile_settings(lastOp.profile)) = store

\* C14 witness: the save overwrote a stored profile of the same id that had
\* other fields, with a profile that has children.
C14_Witness ==
  /\ lastOp.op = "saveProfile"
  /\ lastOp.id \in ListedIds(lastOp.pre)
  /\ get_profile_settings(lastOp.pre, lastOp.id).value.name # lastOp.profile.name
  /\ lastOp.profile.templates # <<>>
  /\ store # lastOp.pre

\* the store after the first k effects of the last call
StoreAfter(k) == Run(lastOp.pre, SubSeq(lastOp.log, 1, k))

\* the pointer of store s is absent or names a profile stored in s
PointerValidIn(s) ==
  \/ value(s, SelectedKey) = NoneVal
  \/ \E i \in 1..Len(childGroups(s, ProfilesRoot)) :
       childGroups(s, ProfilesRoot)[i] = value(s, SelectedKey)

\* C15: in deleteProfile(id) of the active profile the pointer is cleared
\* before the profile's subtree is removed; no intermediate state of the call
\* has a pointer that names an already removed profile.
C15_PointerClearedBeforeRemoval ==
  (/\ lastOp.op = "deleteProfile"
   /\ lastOp.raised = "none"
   /\ is_current_profile(lastOp.pre, lastOp.id).value) =>
    /\ \E i, j \in 1..Len(lastOp.log) :
         /\ i < j
         /\ lastOp.log[i] = SetEff(SelectedKey, NoneVal)
         /\ lastOp.log[j] = RemoveEff(_get_profile_settings_base(str(lastOp.id)))
    /\ \A k \in 0..Len(lastOp.log) : PointerValidIn(StoreAfter(k))

\* C15 witness: the active profile, stored with its scalar fields, was
\* deleted in four effects (clear, emit, remove, emit).
C15_Witness ==
  /\ lastOp.op = "deleteProfile"
  /\ lastOp.raised = "none"
  /\ value(lastOp.pre, SelectedKey) = str(lastOp.id)
  /\ value(lastOp.pre, _get_profile_settings_base(str(lastOp.id)) \o <<"name">>)
       # NoneVal
  /\ Len(lastOp.log) = 4
  /\ StoreAfter(4) = store

\* the effect writes one of the profile's own fields name, path, created_date
IsScalarWrite(e, profile) ==
  /\ e.k = "set"
  /\ e.key \in {_get_profile_settings_base(str(profile.id)) \o <<f>> :
                  f \in {"name", "path", "created_date"}}

\* the effect writes a field of a template or symbology record of the profile
IsChildWrite(e, profile) ==
  /\ e.k = "set"
  /\ Len(e.key) = 6
  /\ IsPrefix(_get_profile_settings_base(str(profile.id)), e.key)

\* every child of the profile is stored in s with its two fields
ChildrenStored(s, profile) ==
  /\ \A i \in 1..Len(profile.templates) :
       \E j \in 1..Len(get_templates(s, profile.id)) :
         get_templates(s, profile.id)[j] = profile.templates[i]
  /\ \A i \in 1..Len(profile.symbology) :
       \E j \in 1..Len(get_symbology(s, profile.id)) :
         get_symbology(s, profile.id)[j] = profile.symbology[i]

\* C16: saveProfile(P) writes every template and symbology record of P
\* before any of name, path, created_date, and notifies once, after the last
\* write; so after any prefix of its writes either none of the three fields
\* has been written by this save or all children of P are stored.
C16_ChildrenWrittenBeforeScalars ==
  lastOp.op = "saveProfile" =>
    LET P == lastOp.profile
        log == lastOp.log
    IN /\ \A i, j \in 1..Len(log) :
            (IsChildWrite(log[i], P) /\ IsScalarWrite(log[j], P)) => i < j
       /\ Cardinality({i \in 1..Len(log) : IsChildWrite(log[i], P)})
            = 2 * (Len(P.templates) + Len(P.symbology))
       /\ Cardinality({i \in 1..Len(log) : IsScalarWrite(log[i], P)}) = 3
       /\ log[Len(log)] = EmitEff
       /\ \A i \in 1..(Len(log) - 1) : log[i].k = "set"
       /\ \A k \in 0..Len(log) :
            \/ \A i \in 1..k : ~IsScalarWrite(log[i], P)
            \/ ChildrenStored(StoreAfter(k), P)

\* C16 witness: the saved profile has a template and a symbology item, none
\* of them stored before, and the save is complete.
C16_Witness ==
  /\ lastOp.op = "saveProfile"
  /\ lastOp.profile.templates # <<>>
  /\ lastOp.profile.symbology # <<>>
  /\ get_templates(lastOp.pre, lastOp.id) = <<>>
  /\ get_symbology(lastOp.pre, lastOp.id) = <<>>
  /\ ChildrenStored(store, lastOp.profile)
  /\ Len(lastOp.log) = 8

SaveOps == {"saveProfile", "saveTemplate", "saveSymbology"}

\* C17: saveProfile(P), saveTemplate(P, t) and saveSymbology(P, s) write only
\* keys below P's own path; what getProfile, getTemplates and getSymbology
\* return for any other profile is unchanged, also when both hold a child of
\* the same id, and the active pointer is unchanged.
C17_SaveWritesOwnSubtreeOnly ==
  lastOp.op \in SaveOps =>
    LET own == _get_profile_settings_base(str(lastOp.id))
    IN /\ \A i \in 1..Len(lastOp.log) :
            lastOp.log[i].k # "emit" =>
              (lastOp.log[i].k = "set" /\ IsPrefix(own, lastOp.log[i].key))
       /\ \A Q \in ProfileIds \ {lastOp.id} :
            /\ get_profile_settings(store, Q) = get_profile_settings(lastOp.pre, Q)
            /\ get_templates(store, Q) = get_templates(lastOp.pre, Q)
            /\ get_symbology(store, Q) = get_symbology(lastOp.pre, Q)
       /\ \A key \in (DOMAIN store) \cup (DOMAIN lastOp.pre) :
            ~IsPrefix(own, key) =>
              /\ key \in DOMAIN store
              /\ key \in DOMAIN lastOp.pre
              /\ store[key] = lastOp.pre[key]
       /\ get_current_profile(store).value.id = get_current_profile(lastOp.pre).value.id

\* C17 witness: a template is saved for one profile while another profile
\* holds a template of the same id.
C17_Witness ==
  /\ lastOp.op = "saveTemplate"
  /\ store # lastOp.pre
  /\ \E Q \in ProfileIds \ {lastOp.id} :
       /\ lastOp.arg \in ChildIdSet(get_templates(lastOp.pre, Q))
       /\ lastOp.arg \in ChildIdSet(get_templates(store, Q))
       /\ lastOp.arg \in ChildIdSet(get_templates(store, lastOp.id))

\* C18: deleteProfile(id) removes the whole subtree of the profile and
\* nothing else: getTemplates(id) and getSymbology(id) are empty afterwards
\* (a profile of that id saved next without children reads back without
\* children), every other profile and its children are unchanged, and the
\* pointer is unchanged when id was not the active profile.
C18_DeleteRemovesWholeSubtreeOnly ==
  (lastOp.op = "deleteProfile" /\ lastOp.raised = "none") =>
    LET own == _get_profile_settings_base(str(lastOp.id))
    IN /\ get_templates(store, lastOp.id) = <<>>
       /\ get_symbology(store, lastOp.id) = <<>>
       /\ \A key \in DOMAIN store : ~IsPrefix(own, key)
       /\ \A P \in Profiles :
            (P.id = lastOp.id /\ P.templates = <<>> /\ P.symbology = <<>>) =>
              LET r == get_profile_settings(Run(store, save_profile_settings(P)), P.id)
              IN r.raised = "none" /\ r.value.templates = <<>>
                   /\ r.value.symbology = <<>>
       /\ \A Q \in ProfileIds \ {lastOp.id} :
            /\ get_profile_settings(store, Q) = get_profile_settings(lastOp.pre, Q)
            /\ (Q \in ListedIds(store)) = (Q \in ListedIds(lastOp.pre))
       /\ \A key \in (DOMAIN store) \cup (DOMAIN lastOp.pre) :
            (~IsPrefix(own, key) /\ key # SelectedKey) =>
              /\ key \in DOMAIN store
              /\ key \in DOMAIN lastOp.pre
              /\ store[key] = lastOp.pre[key]
       /\ ~is_current_profile(lastOp.pre, lastOp.id).value =>
            /\ (SelectedKey \in DOMAIN store) = (SelectedKey \in DOMAIN lastOp.pre)
            /\ value(store, SelectedKey) = value(lastOp.pre, SelectedKey)

\* C18 witness: the deleted profile was stored with its fields and a child
\* and was not active, and another profile is still stored.
C18_Witness ==
  /\ lastOp.op = "deleteProfile"
  /\ lastOp.raised = "none"
  /\ ~is_current_profile(lastOp.pre, lastOp.id).value
  /\ get_profile_settings(lastOp.pre, lastOp.id).value.name # NoneVal
  /\ \/ get_templates(lastOp.pre, lastOp.id) # <<>>
     \/ get_symbology(lastOp.pre, lastOp.id) # <<>>
  /\ ListedIds(store) # {}

\* C19: whenever a call delivers a change notification, the notifications
\* inside deleteProfile and deleteAllProfiles included, the active pointer
\* is absent or names a profile that is stored at that moment.
C19_NoDanglingPointerAtNotification ==
  \A i \in 1..Len(lastOp.emitted) : PointerValidIn(lastOp.emitted[i])

\* C19 witness: deleteAllProfiles ran with a profile stored and active and
\* notified twice, the first time with the profiles already removed.
C19_Witness ==
  /\ lastOp.op = "deleteAllProfiles"
  /\ value(lastOp.pre, SelectedKey) # NoneVal
  /\ Len(lastOp.emitted) = 2
  /\ childGroups(lastOp.emitted[1], ProfilesRoot) = <<>>
  /\ value(lastOp.emitted[1], SelectedKey) = NoneVal

\* beginGroup calls minus endGroup calls on the handle of group g among the
\* first k events
RECURSIVE Depth(_, _, _)
Depth(events, g, k) ==
  IF k = 0 THEN 0
  ELSE Depth(events, g, k - 1)
       + (IF events[k].g # g THEN 0
          ELSE IF events[k].e = "beginGroup" THEN 1 ELSE -1)

\* The group scoping of the last call: a with-block works on a handle made
\* for it, so the trace is a function of the store the call started from and
\* of its arguments.
lastScopes ==
  ScopeTrace(lastOp.pre, lastOp.op, lastOp.id, lastOp.profile, lastOp.arg)

\* C20: every beginGroup of a call is closed by its endGroup before the call
\* returns or raises (findProfileByName raising NotFound inside its scope
\* and a decode raising inside the nested scopes of listProfiles included):
\* the group depth of every handle is zero after every call.
C20_GroupScopesBalanced ==
  LET events == lastScopes.events
  IN /\ lastScopes.raised = lastOp.raised
     /\ \A i \in 1..Len(events) :
          /\ Depth(events, events[i].g, Len(events)) = 0
          /\ \A k \in 0..Len(events) : Depth(events, events[i].g, k) >= 0

\* C20 witness: listProfiles raised from the decode of a stored profile,
\* inside the scope of the profiles group and of the profile's group.
C20_Witness ==
  /\ lastOp.op = "listProfiles"
  /\ lastOp.raised = "ValueError(strptime)"
  /\ Len(lastScopes.events) >= 4
  /\ lastScopes.events[1] = BeginGroup(ProfilesRoot)
  /\ lastScopes.events[Len(lastScopes.events)] = EndGroup(ProfilesRoot)

====
